---- MODULE Spec2Model ----
(***************************************************************************)
(* The savings-group ledger of src/src/App.tsx as a state machine.         *)
(*                                                                         *)
(* State: the four React state cells of App (members, currentWeek,         *)
(* formState, error), the history of crypto.randomUUID (nextId), one       *)
(* history variable (trip) that records the latest withdrawal, so that     *)
(* the two-operation properties (withdraw, then register) can be stated,   *)
(* and the outcome of the latest observed call of getTier (lookup).        *)
(*                                                                         *)
(* One action per event handler.  React flushes the state updates of a     *)
(* discrete event before the next event is dispatched, so every handler    *)
(* runs on the state its predecessor left and is one atomic step.          *)
(*                                                                         *)
(* The handlers are modelled as the code defines them.  The attributes of  *)
(* the rendered form (required, min, max, type="number", the disabled      *)
(* submit button) are browser-side filters in front of handleSubmit, not   *)
(* part of it; the handler is reachable without them (a dispatched submit  *)
(* event), and its own checks are what the model explores.                 *)
(*                                                                         *)
(* Text is a sequence of one-character strings, so that trim, Number and   *)
(* the template literal `${n}` are computed and not assumed.               *)
(***************************************************************************)
EXTENDS Integers, Sequences, FiniteSets, TLC

VARIABLES members, currentWeek, formState, error, nextId, trip, lookup

vars == <<members, currentWeek, formState, error, nextId, trip, lookup>>

(***************************************************************************)
(* Bounds of the exploration.                                              *)
(***************************************************************************)
\* Spec: registrations explored (ids issued) before submit is cut off.
MaxIssued == 2
\* Spec: the last week advanceWeek is explored to.
MaxWeek == 2
\* SpecFull: withdrawals of present members explored.
MaxWithdrawn == 1

\* SpecLong: the last week advanceWeek is explored to.
MaxLongWeek == 7
\* SpecLong: registrations explored.
MaxLongIssued == 1

(***************************************************************************)
(* Program constants.                                                      *)
(***************************************************************************)
MAX_MEMBERS == 12

\* rate is the decimal literal of the source as an exact fraction.
TIERS ==
  << [id |-> "tier1", name |-> "Tier 1", amount |-> 10000,
      rate |-> [num |-> 5, den |-> 100], description |-> "5% interest per week"],
     [id |-> "tier2", name |-> "Tier 2", amount |-> 20000,
      rate |-> [num |-> 1, den |-> 10], description |-> "10% interest per week"],
     [id |-> "tier3", name |-> "Tier 3", amount |-> 30000,
      rate |-> [num |-> 2, den |-> 10], description |-> "20% interest per week"] >>

TierId == {TIERS[i].id : i \in 1..Len(TIERS)}

\* The value of an expression that evaluates to JavaScript's undefined.
Undefined == [id |-> "undefined"]

\* Array.prototype.find: the first match, or undefined (the `!` is erased
\* at compile time).
getTier(tierId) ==
  IF \E i \in 1..Len(TIERS) : TIERS[i].id = tierId
  THEN TIERS[CHOOSE i \in 1..Len(TIERS) :
               /\ TIERS[i].id = tierId
               /\ \A j \in 1..(i - 1) : TIERS[j].id # tierId]
  ELSE Undefined

(***************************************************************************)
(* Text.                                                                   *)
(***************************************************************************)
Digits == <<"0", "1", "2", "3", "4", "5", "6", "7", "8", "9">>

IsDigit(c) == \E d \in 1..10 : Digits[d] = c

DigitVal(c) == (CHOOSE d \in 1..10 : Digits[d] = c) - 1

WhiteSpace == {" ", "\t", "\n"}

RECURSIVE TrimStart(_)
TrimStart(s) ==
  IF s # <<>> /\ Head(s) \in WhiteSpace THEN TrimStart(Tail(s)) ELSE s

RECURSIVE TrimEnd(_)
TrimEnd(s) ==
  IF s # <<>> /\ s[Len(s)] \in WhiteSpace
  THEN TrimEnd(SubSeq(s, 1, Len(s) - 1))
  ELSE s

\* String.prototype.trim
Trim(s) == TrimEnd(TrimStart(s))

\* The template literal `${n}` of a non-negative integer.
RECURSIVE ToStr(_)
ToStr(n) ==
  IF n < 10 THEN <<Digits[n + 1]>>
  ELSE ToStr(n \div 10) \o <<Digits[(n % 10) + 1]>>

\* A sequence of characters as one string value.
RECURSIVE Cat(_)
Cat(s) == IF s = <<>> THEN "" ELSE Head(s) \o Cat(Tail(s))

(***************************************************************************)
(* Numbers: a JavaScript number is NaN, an infinity (val is its sign) or   *)
(* a finite value.                                                         *)
(***************************************************************************)
NaN == [kind |-> "NaN", val |-> 0]

Infinity(sign) == [kind |-> "Infinity", val |-> sign]

Finite(n) == [kind |-> "finite", val |-> n]

InfinityLiteral == <<"I", "n", "f", "i", "n", "i", "t", "y">>

RECURSIVE DecimalValue(_)
DecimalValue(s) ==
  IF s = <<>> THEN 0
  ELSE DecimalValue(SubSeq(s, 1, Len(s) - 1)) * 10 + DigitVal(s[Len(s)])

\* StrUnsignedDecimalLiteral, for the literals made of decimal digits only
\* and the literal Infinity; any other text is not a numeric literal.  (The
\* fraction, exponent and radix-prefix forms are not modelled, and no input
\* of the model uses their characters in such a form.)
UnsignedLiteral(s) ==
  IF s = InfinityLiteral THEN Infinity(1)
  ELSE IF s # <<>> /\ \A i \in 1..Len(s) : IsDigit(s[i])
       THEN Finite(DecimalValue(s))
       ELSE NaN

Negate(v) == IF v.kind = "NaN" THEN v ELSE [v EXCEPT !.val = 0 - v.val]

\* Number(text): white space is stripped, the empty text is 0, a sign may
\* lead the literal.
Number(s) ==
  LET t == Trim(s)
  IN  IF t = <<>> THEN Finite(0)
      ELSE IF Head(t) = "-" THEN Negate(UnsignedLiteral(Tail(t)))
      ELSE IF Head(t) = "+" THEN UnsignedLiteral(Tail(t))
      ELSE UnsignedLiteral(t)

\* Variant: the check written with Number.isFinite, which also turns the
\* infinities away.
NumberIsNaN_NotFinite(v) == v.kind # "finite"

\* Number.isNaN
NumberIsNaN(v) == v.kind = "NaN"

\* Variant: the comparison written < , which lets an amount above the
\* tier's through.
StrictNotEqual_LessThan(a, b) ==
  \/ a.kind = "NaN"
  \/ b.kind = "NaN"
  \/ a.kind = "finite" /\ b.kind = "finite" /\ a.val < b.val
  \/ a.kind = "Infinity" /\ a.val < 0

\* a !== b on numbers: NaN differs from everything, itself included.
StrictNotEqual(a, b) == a.kind = "NaN" \/ b.kind = "NaN" \/ a # b

\* amount * rate in IEEE doubles, for the finite amounts the handler lets
\* through (the tiers' own): 10000 * 0.05, 20000 * 0.1 and 30000 * 0.2 round
\* to the integers 500, 2000 and 6000.
Times(amount, rate) == (amount * rate.num) \div rate.den

\* Intl.NumberFormat('en-NG', NGN, maximumFractionDigits 0) of a
\* non-negative integer: the naira sign and the digits in groups of three.
Pad3(k) ==
  Digits[(k \div 100) + 1] \o Digits[((k \div 10) % 10) + 1] \o Digits[(k % 10) + 1]

RECURSIVE Grouped(_)
Grouped(n) ==
  IF n < 1000 THEN Cat(ToStr(n))
  ELSE Grouped(n \div 1000) \o "," \o Pad3(n % 1000)

formatCurrency(value) == "₦" \o Grouped(value)

(***************************************************************************)
(* The messages of handleSubmit.                                           *)
(***************************************************************************)
NoError == ""

ErrName == "Please enter the student name."

ErrAmount == "Amount must be a number."

ErrTier(tier) ==
  "Tier " \o tier.name \o " requires exactly " \o formatCurrency(tier.amount) \o "."

ErrFull == "The group already has 12 members."

(***************************************************************************)
(* Inputs of the handlers.                                                 *)
(***************************************************************************)
\* Texts typed into the name field.
NameInputs == { <<" ">>, <<" ", "A", "l", " ">> }

\* Texts put into the amount field: each tier's amount, text that is no
\* number, the two infinities, and the empty field.
AmountInputs ==
  {ToStr(TIERS[i].amount) : i \in 1..Len(TIERS)}
    \cup { <<"a", "b", "c">>, InfinityLiteral, <<"-">> \o InfinityLiteral, <<>> }

(***************************************************************************)
(* History: the latest change of the member list, as far as the           *)
(* round-trip properties need it.                                          *)
(*   stage 1: it was the withdrawal of member m (weeks may have advanced   *)
(*            since);                                                      *)
(*   stage 2: it was a registration under m's name and tier that directly  *)
(*            followed the withdrawal of m, and the week has not advanced  *)
(*            since;                                                       *)
(*   stage 0: anything else.                                               *)
(***************************************************************************)
NoMember ==
  [id |-> 0, name |-> <<>>, tierId |-> "", amount |-> 0, weeklyInterest |-> 0,
   startWeek |-> 0]

NoTrip == [stage |-> 0, m |-> NoMember]

\* No call of getTier observed yet.
NoLookup == [tierId |-> "", result |-> [kind |-> "none"]]

\* A call that ran to its end and returned value.
Returned(value) == [kind |-> "return", value |-> value]

(***************************************************************************)
(* The initial state: the useState initialisers.                           *)
(***************************************************************************)
Init ==
  /\ members = <<>>
  /\ currentWeek = 1
  /\ formState = [name |-> <<>>, tierId |-> "tier1", amount |-> ToStr(TIERS[1].amount)]
  /\ error = NoError
  /\ nextId = 1
  /\ trip = NoTrip
  /\ lookup = NoLookup

\* MAX_MEMBERS - members.length
availableSlots == MAX_MEMBERS - Len(members)

(***************************************************************************)
(* computeProjectedTotal and the totals.                                   *)
(***************************************************************************)
Max(a, b) == IF a >= b THEN a ELSE b

\* Variant: the week of joining is not counted (the + 1 is missing).
weeksActive_NoJoinWeek(member, week) == Max(1, week - member.startWeek)

\* Variant: Math.min in place of Math.max.
weeksActive_Min(member, week) ==
  IF 1 <= week - member.startWeek + 1 THEN 1 ELSE week - member.startWeek + 1

weeksActive(member, week) == Max(1, week - member.startWeek + 1)

computeProjectedTotal(member, week) ==
  member.amount + member.weeklyInterest * weeksActive(member, week)

\* members.reduce((sum, member) => sum + term(member), 0), on the sequence
\* of the members' terms: the sum is carried from the left, from acc.
RECURSIVE ReduceSum(_, _)
ReduceSum(terms, acc) ==
  IF terms = <<>> THEN acc ELSE ReduceSum(Tail(terms), acc + Head(terms))

\* Variant: the weekly interest summed as the interest accrued so far.
totals_AccruedInterest ==
  [totalPrincipal |->
     ReduceSum([i \in 1..Len(members) |-> members[i].amount], 0),
   totalWithInterest |->
     ReduceSum([i \in 1..Len(members) |->
                  computeProjectedTotal(members[i], currentWeek)], 0),
   totalWeeklyInterest |->
     ReduceSum([i \in 1..Len(members) |->
                  members[i].weeklyInterest * weeksActive(members[i], currentWeek)], 0)]

\* The memo over [members, currentWeek]: both of its inputs are its
\* dependencies, so the value rendered is the value of the current state.
totals ==
  [totalPrincipal |->
     ReduceSum([i \in 1..Len(members) |-> members[i].amount], 0),
   totalWithInterest |->
     ReduceSum([i \in 1..Len(members) |->
                  computeProjectedTotal(members[i], currentWeek)], 0),
   totalWeeklyInterest |->
     ReduceSum([i \in 1..Len(members) |-> members[i].weeklyInterest], 0)]

(***************************************************************************)
(* handleSubmit.                                                           *)
(***************************************************************************)
\* Variant: the capacity check written > instead of >=.
SubmitError_OffByOne(trimmedName, parsedAmount, selectedTier, ms) ==
  IF trimmedName = <<>> THEN ErrName
  ELSE IF NumberIsNaN(parsedAmount) THEN ErrAmount
  ELSE IF StrictNotEqual(parsedAmount, Finite(selectedTier.amount)) THEN ErrTier(selectedTier)
  ELSE IF Len(ms) > MAX_MEMBERS THEN ErrFull
  ELSE NoError

\* Variant: the capacity check moved in front of the others.
SubmitError_CapacityFirst(trimmedName, parsedAmount, selectedTier, ms) ==
  IF Len(ms) >= MAX_MEMBERS THEN ErrFull
  ELSE IF trimmedName = <<>> THEN ErrName
  ELSE IF NumberIsNaN(parsedAmount) THEN ErrAmount
  ELSE IF StrictNotEqual(parsedAmount, Finite(selectedTier.amount)) THEN ErrTier(selectedTier)
  ELSE NoError

\* Variant: the capacity check counting the members ever registered, not
\* the members present.
SubmitError_CountsIssued(trimmedName, parsedAmount, selectedTier, ms) ==
  IF trimmedName = <<>> THEN ErrName
  ELSE IF NumberIsNaN(parsedAmount) THEN ErrAmount
  ELSE IF StrictNotEqual(parsedAmount, Finite(selectedTier.amount)) THEN ErrTier(selectedTier)
  ELSE IF nextId - 1 >= MAX_MEMBERS THEN ErrFull
  ELSE NoError

\* The chain of early returns: the message set by the first check that
\* fails, NoError when none does.
SubmitError(trimmedName, parsedAmount, selectedTier, ms) ==
  IF trimmedName = <<>> THEN ErrName
  ELSE IF NumberIsNaN(parsedAmount) THEN ErrAmount
  ELSE IF StrictNotEqual(parsedAmount, Finite(selectedTier.amount)) THEN ErrTier(selectedTier)
  ELSE IF Len(ms) >= MAX_MEMBERS THEN ErrFull
  ELSE NoError

\* Variant: the id derived from the size of the list.
NewMember_CountId(id, trimmedName, selectedTier, parsedAmount, week) ==
  [id |-> Len(members) + 1,
   name |-> trimmedName,
   tierId |-> selectedTier.id,
   amount |-> parsedAmount.val,
   weeklyInterest |-> Times(parsedAmount.val, selectedTier.rate),
   startWeek |-> week]

\* Variant: the member starts in the week after the registration.
NewMember_NextWeek(id, trimmedName, selectedTier, parsedAmount, week) ==
  [id |-> id,
   name |-> trimmedName,
   tierId |-> selectedTier.id,
   amount |-> parsedAmount.val,
   weeklyInterest |-> Times(parsedAmount.val, selectedTier.rate),
   startWeek |-> week + 1]

\* The object literal newMember; id is the value crypto.randomUUID returned.
NewMember(id, trimmedName, selectedTier, parsedAmount, week) ==
  [id |-> id,
   name |-> trimmedName,
   tierId |-> selectedTier.id,
   amount |-> parsedAmount.val,
   weeklyInterest |-> Times(parsedAmount.val, selectedTier.rate),
   startWeek |-> week]

\* Variant: the new member put in front.
Registered_Prepend(prev, newMember) == <<newMember>> \o prev

\* The updater (prev) => [...prev, newMember]
Registered(prev, newMember) == Append(prev, newMember)

\* Variant: the return after the capacity message is missing, so the
\* member is added all the same.
handleSubmit_NoReturn ==
  LET trimmedName == Trim(formState.name)
      selectedTier == getTier(formState.tierId)
      parsedAmount == Number(formState.amount)
      failure == SubmitError(trimmedName, parsedAmount, selectedTier, members)
      newMember == NewMember(nextId, trimmedName, selectedTier, parsedAmount, currentWeek)
  IN  IF failure \notin {NoError, ErrFull}
      THEN /\ error' = failure
           /\ UNCHANGED <<members, currentWeek, formState, nextId, trip, lookup>>
      ELSE /\ error' = failure
           /\ members' = Registered(members, newMember)
           /\ formState' = [name |-> <<>>, tierId |-> formState.tierId,
                            amount |-> ToStr(selectedTier.amount)]
           /\ nextId' = nextId + 1
           /\ trip' = NoTrip
           /\ UNCHANGED <<currentWeek, lookup>>

\* crypto.randomUUID returns a value it has not returned before; the model
\* names the values by the order of issue.
handleSubmit ==
  LET trimmedName == Trim(formState.name)
      selectedTier == getTier(formState.tierId)
      parsedAmount == Number(formState.amount)
      failure == SubmitError(trimmedName, parsedAmount, selectedTier, members)
      newMember == NewMember(nextId, trimmedName, selectedTier, parsedAmount, currentWeek)
  IN  IF failure # NoError
      THEN /\ error' = failure
           /\ UNCHANGED <<members, currentWeek, formState, nextId, trip, lookup>>
      ELSE /\ error' = NoError
           /\ members' = Registered(members, newMember)
           /\ formState' = [name |-> <<>>, tierId |-> formState.tierId,
                            amount |-> ToStr(selectedTier.amount)]
           /\ nextId' = nextId + 1
           /\ trip' = IF /\ trip.stage = 1
                         /\ newMember.name = trip.m.name
                         /\ newMember.tierId = trip.m.tierId
                      THEN [stage |-> 2, m |-> trip.m]
                      ELSE NoTrip
           /\ UNCHANGED <<currentWeek, lookup>>

(***************************************************************************)
(* The form's change handlers.                                             *)
(***************************************************************************)
\* onChange of the name field
SetName(text) ==
  /\ formState' = [formState EXCEPT !.name = text]
  /\ UNCHANGED <<members, currentWeek, error, nextId, trip, lookup>>

\* onChange of the amount field
SetAmount(text) ==
  /\ formState' = [formState EXCEPT !.amount = text]
  /\ UNCHANGED <<members, currentWeek, error, nextId, trip, lookup>>

\* Variant: the selection stores the tier and leaves the amount field.
handleTierChange_KeepsAmount(tierId) ==
  /\ formState' = [formState EXCEPT !.tierId = tierId]
  /\ UNCHANGED <<members, currentWeek, error, nextId, trip, lookup>>

handleTierChange(tierId) ==
  LET selectedTier == getTier(tierId)
  IN  /\ formState' = [formState EXCEPT !.tierId = tierId,
                                        !.amount = ToStr(selectedTier.amount)]
      /\ UNCHANGED <<members, currentWeek, error, nextId, trip, lookup>>

(***************************************************************************)
(* handleWithdraw and advanceWeek.                                         *)
(***************************************************************************)
\* Variant: the filter's test written === .
WithoutId_KeepsMatch(ms, memberId) == SelectSeq(ms, LAMBDA member : member.id = memberId)

\* prev.filter((member) => member.id !== memberId)
WithoutId(ms, memberId) == SelectSeq(ms, LAMBDA member : member.id # memberId)

\* Variant: a withdrawal starts the clock again.
handleWithdraw_RestartsClock(memberId) ==
  LET gone == SelectSeq(members, LAMBDA member : member.id = memberId)
  IN  /\ members' = WithoutId(members, memberId)
      /\ currentWeek' = 1
      /\ trip' = IF gone # <<>> THEN [stage |-> 1, m |-> Head(gone)] ELSE trip
      /\ UNCHANGED <<formState, error, nextId, lookup>>

handleWithdraw(memberId) ==
  LET gone == SelectSeq(members, LAMBDA member : member.id = memberId)
  IN  /\ members' = WithoutId(members, memberId)
      /\ trip' = IF gone # <<>> THEN [stage |-> 1, m |-> Head(gone)] ELSE trip
      /\ UNCHANGED <<currentWeek, formState, error, nextId, lookup>>

\* Variant: the week advanced and every member's start moved along with it.
advanceWeek_Rejoin ==
  /\ currentWeek' = currentWeek + 1
  /\ members' = [i \in 1..Len(members) |-> [members[i] EXCEPT !.startWeek = currentWeek + 1]]
  /\ trip' = IF trip.stage = 2 THEN NoTrip ELSE trip
  /\ UNCHANGED <<formState, error, nextId, lookup>>

advanceWeek ==
  /\ currentWeek' = currentWeek + 1
  /\ trip' = IF trip.stage = 2 THEN NoTrip ELSE trip
  /\ UNCHANGED <<members, formState, error, nextId, lookup>>

(***************************************************************************)
(* Spec: every handler with every input, over ledgers of up to MaxIssued   *)
(* registrations and weeks up to MaxWeek.                                  *)
(***************************************************************************)
\* The ids a withdrawal is asked for: every id issued so far, and one that
\* was never issued.
IdInputs == 1..nextId

Next ==
  \/ \E text \in NameInputs : SetName(text)
  \/ \E text \in AmountInputs : SetAmount(text)
  \/ \E tierId \in TierId : handleTierChange(tierId)
  \/ nextId <= MaxIssued /\ handleSubmit
  \/ \E memberId \in IdInputs : handleWithdraw(memberId)
  \/ currentWeek < MaxWeek /\ advanceWeek

Spec == Init /\ [][Next]_vars

(***************************************************************************)
(* SpecFull: the group filled to its capacity and around it.  The week     *)
(* and the selected tier stay as constructed; at most MaxWithdrawn present *)
(* members are withdrawn.                                                  *)
(***************************************************************************)
Withdrawn == (nextId - 1) - Len(members)

IsMember(memberId) == \E i \in 1..Len(members) : members[i].id = memberId

NextFull ==
  \/ \E text \in NameInputs : SetName(text)
  \/ \E text \in AmountInputs : SetAmount(text)
  \/ handleSubmit
  \/ \E memberId \in IdInputs :
       /\ IsMember(memberId) => Withdrawn < MaxWithdrawn
       /\ handleWithdraw(memberId)

SpecFull == Init /\ [][NextFull]_vars

(***************************************************************************)
(* SpecLong: a long clock over few members.  The amount field is left as   *)
(* the tier selection sets it and nobody is withdrawn.                     *)
(***************************************************************************)
NextLong ==
  \/ \E text \in NameInputs : SetName(text)
  \/ \E tierId \in TierId : handleTierChange(tierId)
  \/ nextId <= MaxLongIssued /\ handleSubmit
  \/ currentWeek < MaxLongWeek /\ advanceWeek

SpecLong == Init /\ [][NextLong]_vars

(***************************************************************************)
(* SpecLookup: getTier as handleTierChange calls it, observed on its own.  *)
(* The select hands event.target.value to handleTierChange under the cast  *)
(* `as TierId`, which checks nothing at run time, so getTier is defined on *)
(* every string.  The form is edited around the calls.                     *)
(***************************************************************************)
\* The ids getTier is asked for: the catalog's and two that are not in it.
LookupInputs == TierId \cup {"tier4", ""}

\* The call getTier(tierId): find returns the match or undefined; the call
\* raises nothing.
Lookup(tierId) ==
  /\ lookup' = [tierId |-> tierId, result |-> Returned(getTier(tierId))]
  /\ UNCHANGED <<members, currentWeek, formState, error, nextId, trip>>

NextLookup ==
  \/ \E text \in NameInputs : SetName(text)
  \/ \E text \in AmountInputs : SetAmount(text)
  \/ \E tierId \in TierId : handleTierChange(tierId)
  \/ \E tierId \in LookupInputs : Lookup(tierId)

SpecLookup == Init /\ [][NextLookup]_vars

(***************************************************************************)
(* SpecNoEdit: as Spec, with the amount field never typed into.            *)
(***************************************************************************)
NextNoEdit ==
  \/ \E text \in NameInputs : SetName(text)
  \/ \E tierId \in TierId : handleTierChange(tierId)
  \/ nextId <= MaxIssued /\ handleSubmit
  \/ \E memberId \in IdInputs : handleWithdraw(memberId)
  \/ currentWeek < MaxWeek /\ advanceWeek

SpecNoEdit == Init /\ [][NextNoEdit]_vars

(***************************************************************************)
(* The four validation rules of a registration, stated on the form and     *)
(* the ledger as they are when submit is pressed.                          *)
(***************************************************************************)
\* Rule 1: the trimmed name is non-empty.
NameGiven == Trim(formState.name) # <<>>

\* Rule 2: the amount is a number (it does not parse to NaN).
AmountIsNumber == Number(formState.amount).kind # "NaN"

\* Rule 3: the amount equals the selected tier's deposit.
AmountMatchesTier ==
  /\ Number(formState.amount).kind = "finite"
  /\ Number(formState.amount).val = getTier(formState.tierId).amount

\* Rule 4: fewer than 12 members.
HasCapacity == Len(members) < MAX_MEMBERS

AllRulesPass == NameGiven /\ AmountIsNumber /\ AmountMatchesTier /\ HasCapacity

\* The numbers of the rules the submitted form violates.
ViolatedRules ==
  {k \in 1..4 : \/ k = 1 /\ ~NameGiven
                \/ k = 2 /\ ~AmountIsNumber
                \/ k = 3 /\ ~AmountMatchesTier
                \/ k = 4 /\ ~HasCapacity}

\* The message of rule k.
RuleMessage(k) ==
  CASE k = 1 -> ErrName
    [] k = 2 -> ErrAmount
    [] k = 3 -> ErrTier(getTier(formState.tierId))
    [] k = 4 -> ErrFull

LastMember == members[Len(members)]

(***************************************************************************)
(* C1: in every reachable state the number of members is between 0 and 12  *)
(* inclusive.  (SpecFull)                                                  *)
(***************************************************************************)
C1_MemberCountWithinCapacity ==
  Len(members) >= 0 /\ Len(members) <= MAX_MEMBERS

\* The group is full and a further, otherwise valid, registration was turned away.
C1_Witness ==
  Len(members) = MAX_MEMBERS /\ nextId = MAX_MEMBERS + 1 /\ error = ErrFull

(***************************************************************************)
(* C2: a registration attempt that fails any validation rule leaves the    *)
(* member list and currentWeek as they were; with otherwise valid inputs   *)
(* and 12 members it fails with the capacity message and adds no member.   *)
(* (SpecFull)                                                              *)
(***************************************************************************)
C2_FailedRegistrationChangesNothing ==
  [][ (handleSubmit /\ ~AllRulesPass) =>
        /\ members' = members
        /\ currentWeek' = currentWeek
        /\ error' # NoError
        /\ (NameGiven /\ AmountMatchesTier /\ ~HasCapacity => error' = ErrFull) ]_vars

\* A valid form was submitted to the full group and the form is still as submitted.
C2_Witness ==
  /\ Len(members) = MAX_MEMBERS
  /\ error = ErrFull
  /\ NameGiven
  /\ AmountMatchesTier

(***************************************************************************)
(* C3: registration reports the message of the lowest-numbered violated    *)
(* rule, in the order name, number, tier amount, capacity; no message when *)
(* no rule is violated.  (SpecFull)                                        *)
(***************************************************************************)
C3_FirstViolatedRuleIsReported ==
  [][ handleSubmit =>
        error' = IF ViolatedRules = {} THEN NoError
                 ELSE RuleMessage(CHOOSE k \in ViolatedRules :
                                    \A j \in ViolatedRules : k <= j) ]_vars

\* A mismatched amount was submitted to the full group: rules 3 and 4 are
\* both violated and the tier message is the one shown.
C3_Witness ==
  /\ Len(members) = MAX_MEMBERS
  /\ ViolatedRules = {3, 4}
  /\ error = ErrTier(getTier(formState.tierId))

(***************************************************************************)
(* C4 as claimed: with a non-empty trimmed name, every amount that does    *)
(* not parse to a finite number (NaN, +Infinity, -Infinity) is rejected    *)
(* with the invalid-amount message.                                        *)
(***************************************************************************)
C4_NonFiniteIsInvalidAmount ==
  [][ (handleSubmit /\ NameGiven /\ Number(formState.amount).kind # "finite") =>
        error' = ErrAmount ]_vars

(***************************************************************************)
(* C4 as amended: with a non-empty trimmed name, an amount that parses to  *)
(* NaN is rejected with the invalid-amount message, and an amount that     *)
(* parses to +Infinity or -Infinity passes the number check and is         *)
(* rejected with the tier-mismatch message.                                *)
(***************************************************************************)
C4_NaNIsInvalidAmountInfinityIsMismatch ==
  [][ (handleSubmit /\ NameGiven) =>
        /\ Number(formState.amount).kind = "NaN" => error' = ErrAmount
        /\ Number(formState.amount).kind = "Infinity" =>
             error' = ErrTier(getTier(formState.tierId)) ]_vars

\* An infinite amount was submitted under a name and the tier message is shown.
C4_Witness ==
  /\ NameGiven
  /\ Number(formState.amount).kind = "Infinity"
  /\ error = ErrTier(getTier(formState.tierId))

(***************************************************************************)
(* C5: a registration that passes all four rules adds exactly one member,  *)
(* at the end of the list, leaves the earlier members as they were and in  *)
(* their order, and gives the new member the current week as its           *)
(* startWeek.                                                              *)
(***************************************************************************)
C5_RegistrationAppendsOneMember ==
  [][ (handleSubmit /\ AllRulesPass) =>
        /\ Len(members') = Len(members) + 1
        /\ SubSeq(members', 1, Len(members)) = members
        /\ members'[Len(members')].startWeek = currentWeek ]_vars

\* A second member joined in a later week than the first, which is still
\* first and still has its own week.
C5_Witness ==
  /\ Len(members) = 2
  /\ members[1].startWeek < members[2].startWeek
  /\ members[2].startWeek = currentWeek
  /\ error = NoError

(***************************************************************************)
(* C6: advanceWeek is always enabled, adds exactly 1 to currentWeek (so n  *)
(* calls in a row add n) and leaves the member list, every member's        *)
(* startWeek, amount and weeklyInterest included, unchanged.               *)
(***************************************************************************)
C6_AdvanceWeekIsPureIncrement ==
  /\ [](ENABLED advanceWeek)
  /\ [][ advanceWeek => currentWeek' = currentWeek + 1 /\ members' = members ]_vars

\* The week has advanced past the week in which a member joined.
C6_Witness ==
  /\ members # <<>>
  /\ currentWeek > 1
  /\ members[1].startWeek = 1

(***************************************************************************)
(* C7: withdrawing an id that is present removes exactly that member and   *)
(* keeps the others unchanged in their order; withdrawing an id that is    *)
(* not present changes neither the list nor the week; neither sets an      *)
(* error.  (SpecFull)                                                      *)
(***************************************************************************)
C7_WithdrawRemovesExactlyThatMember ==
  [][ \A memberId \in IdInputs :
        handleWithdraw(memberId) =>
          /\ currentWeek' = currentWeek
          /\ error' = error
          /\ IF \E i \in 1..Len(members) : members[i].id = memberId
             THEN LET i == CHOOSE i \in 1..Len(members) : members[i].id = memberId
                  IN  /\ Len(members') = Len(members) - 1
                      /\ \A j \in 1..Len(members') :
                           members'[j] = IF j < i THEN members[j] ELSE members[j + 1]
             ELSE members' = members ]_vars

\* A member was withdrawn from between two others, which are both still there.
C7_Witness ==
  /\ trip.stage = 1
  /\ \E i \in 1..(Len(members) - 1) :
       members[i].id < trip.m.id /\ trip.m.id < members[i + 1].id

(***************************************************************************)
(* C8: after a member is withdrawn from a group of 12, a registration with *)
(* a non-empty name and the selected tier's exact amount succeeds and      *)
(* brings the group back to 12.  (SpecFull)                                *)
(***************************************************************************)
C8_WithdrawalFreesSlot ==
  [][ ( /\ trip.stage = 1
        /\ Len(members) = MAX_MEMBERS - 1
        /\ handleSubmit
        /\ NameGiven
        /\ AmountMatchesTier ) =>
        /\ error' = NoError
        /\ Len(members') = MAX_MEMBERS ]_vars

\* The group was full, a member left, and a thirteenth registration filled it again.
C8_Witness ==
  /\ trip.stage = 2
  /\ Len(members) = MAX_MEMBERS
  /\ nextId = MAX_MEMBERS + 2
  /\ error = NoError

(***************************************************************************)
(* C9: after a member is withdrawn, and any number of advanceWeek calls, a *)
(* registration under the same name and tier succeeds, and the new member  *)
(* has an id different from the withdrawn member's and the week of this    *)
(* second registration as its startWeek.                                   *)
(***************************************************************************)
C9_ReRegistrationIsNewMember ==
  [][ ( /\ trip.stage = 1
        /\ handleSubmit
        /\ Trim(formState.name) = trip.m.name
        /\ formState.tierId = trip.m.tierId
        /\ AmountMatchesTier ) =>
        /\ error' = NoError
        /\ Len(members') = Len(members) + 1
        /\ members'[Len(members')].id # trip.m.id
        /\ members'[Len(members')].startWeek = currentWeek ]_vars

\* The round trip was made across a week boundary.
C9_Witness ==
  /\ trip.stage = 2
  /\ LastMember.name = trip.m.name
  /\ LastMember.id # trip.m.id
  /\ LastMember.startWeek > trip.m.startWeek

(***************************************************************************)
(* C10: every member's startWeek is at least 1 and at most currentWeek,    *)
(* so weeksActive is currentWeek - startWeek + 1 and the floor of 1 never  *)
(* takes effect.                                                           *)
(***************************************************************************)
C10_StartWeekWithinClock ==
  \A i \in 1..Len(members) :
    /\ 1 <= members[i].startWeek
    /\ members[i].startWeek <= currentWeek
    /\ weeksActive(members[i], currentWeek) = currentWeek - members[i].startWeek + 1

\* Members of two different weeks, the later one at the floor's edge.
C10_Witness ==
  /\ Len(members) = 2
  /\ members[1].startWeek = 1
  /\ members[2].startWeek = 2
  /\ weeksActive(members[2], currentWeek) = 1

(***************************************************************************)
(* C11: currentWeek starts at 1, never decreases, and is changed only by   *)
(* advanceWeek: every register attempt, successful or failed, and every    *)
(* withdraw leaves it unchanged.                                           *)
(***************************************************************************)
C11_WeekChangedOnlyByAdvanceWeek ==
  /\ currentWeek = 1
  /\ [][ /\ currentWeek' >= currentWeek
         /\ currentWeek' # currentWeek => advanceWeek
         /\ handleSubmit => currentWeek' = currentWeek
         /\ \A memberId \in IdInputs :
              handleWithdraw(memberId) => currentWeek' = currentWeek ]_vars

\* In the second week a member joined and left, and a registration failed.
C11_Witness ==
  /\ currentWeek = 2
  /\ trip.stage = 1
  /\ trip.m.startWeek = 2
  /\ error # NoError

(***************************************************************************)
(* C12: the projected payout of a member is amount + weeklyInterest in its *)
(* join week and amount + weeklyInterest * (k + 1) k weeks later, linear   *)
(* in k; a tier3 member that joined in week 4 has 36000 in week 4 and      *)
(* 54000 in week 7.  (SpecLong)                                            *)
(***************************************************************************)
C12_PayoutIsLinearInWeeks ==
  \A i \in 1..Len(members) :
    LET member == members[i]
        k == currentWeek - member.startWeek
        payout == computeProjectedTotal(member, currentWeek)
    IN  /\ k >= 0
        /\ payout = member.amount + member.weeklyInterest * (k + 1)
        /\ k = 0 => payout = member.amount + member.weeklyInterest
        /\ (member.tierId = "tier3" /\ member.startWeek = 4 /\ currentWeek = 4)
             => payout = 36000
        /\ (member.tierId = "tier3" /\ member.startWeek = 4 /\ currentWeek = 7)
             => payout = 54000

\* The tier3 member of week 4, seen in week 7.
C12_Witness ==
  /\ members # <<>>
  /\ members[1].tierId = "tier3"
  /\ members[1].startWeek = 4
  /\ currentWeek = 7
  /\ computeProjectedTotal(members[1], currentWeek) = 54000

(***************************************************************************)
(* C13: a lookup of a tierId that is not tier1, tier2 or tier3 fails with  *)
(* NotFoundError and returns no value; a lookup of tier1, tier2, tier3     *)
(* returns the tier with amount and rate 10000 and 0.05, 20000 and 0.10,   *)
(* 30000 and 0.20.  (SpecLookup)                                           *)
(***************************************************************************)
C13_LookupFailsOnUnknownId ==
  lookup.result.kind # "none" =>
    IF lookup.tierId \in {"tier1", "tier2", "tier3"}
    THEN /\ lookup.result.kind = "return"
         /\ lookup.result.value.id = lookup.tierId
         /\ <<lookup.result.value.amount, lookup.result.value.rate>> =
              CASE lookup.tierId = "tier1" -> <<10000, [num |-> 5, den |-> 100]>>
                [] lookup.tierId = "tier2" -> <<20000, [num |-> 1, den |-> 10]>>
                [] lookup.tierId = "tier3" -> <<30000, [num |-> 2, den |-> 10]>>
    ELSE /\ lookup.result.kind = "throw"
         /\ lookup.result.error = "NotFoundError"

(***************************************************************************)
(* C14: every member has its tier's fixed amount (10000, 20000, 30000),    *)
(* that amount times the tier's rate as weeklyInterest (500, 2000, 6000)   *)
(* and a non-empty name; and no operation changes a field of a member that *)
(* stays in the ledger.                                                    *)
(***************************************************************************)
C14_MembersMatchTierAndStayAsRegistered ==
  /\ [](\A i \in 1..Len(members) :
          LET member == members[i]
          IN  /\ member.name # <<>>
              /\ member.amount = getTier(member.tierId).amount
              /\ <<member.amount, member.weeklyInterest>> =
                   CASE member.tierId = "tier1" -> <<10000, 500>>
                     [] member.tierId = "tier2" -> <<20000, 2000>>
                     [] member.tierId = "tier3" -> <<30000, 6000>>)
  /\ [][ \A i \in 1..Len(members) : \A j \in 1..Len(members') :
           members'[j].id = members[i].id => members'[j] = members[i] ]_vars

\* Members of two tiers, the first of them from an earlier week.
C14_Witness ==
  /\ Len(members) = 2
  /\ members[1].tierId = "tier3"
  /\ members[1].weeklyInterest = 6000
  /\ members[2].tierId = "tier2"
  /\ members[1].startWeek < currentWeek

(***************************************************************************)
(* C15: the ids of the members in the ledger are pairwise distinct (the id *)
(* generator returning a value not in use), so a withdraw removes at most  *)
(* one member.  (SpecFull)                                                 *)
(***************************************************************************)
C15_MemberIdsAreDistinct ==
  /\ [](\A i \in 1..Len(members) : \A j \in 1..Len(members) :
          i # j => members[i].id # members[j].id)
  /\ [][ \A memberId \in IdInputs :
           handleWithdraw(memberId) => Len(members') >= Len(members) - 1 ]_vars

\* A full group, one of whose members registered after another had left.
C15_Witness ==
  /\ Len(members) = MAX_MEMBERS
  /\ Withdrawn = 1
  /\ Cardinality({members[i].id : i \in 1..Len(members)}) = MAX_MEMBERS

(***************************************************************************)
(* C16: the three totals are the sums over the current members at the      *)
(* current week; advanceWeek leaves totalPrincipal and totalWeeklyInterest *)
(* as they were; withdrawing a member lowers each total by that member's   *)
(* own amount, weeklyInterest and projected payout.                        *)
(***************************************************************************)
\* The sum of the first n terms, from the last one down.
RECURSIVE SumFirst(_, _)
SumFirst(terms, n) == IF n = 0 THEN 0 ELSE SumFirst(terms, n - 1) + terms[n]

C16_TotalsAreSumsOverMembers ==
  /\ [](/\ totals.totalPrincipal =
             SumFirst([i \in 1..Len(members) |-> members[i].amount], Len(members))
        /\ totals.totalWeeklyInterest =
             SumFirst([i \in 1..Len(members) |-> members[i].weeklyInterest],
                      Len(members))
        /\ totals.totalWithInterest =
             SumFirst([i \in 1..Len(members) |->
                         members[i].amount
                           + members[i].weeklyInterest
                               * (currentWeek - members[i].startWeek + 1)],
                      Len(members)))
  /\ [][ /\ advanceWeek =>
              /\ totals'.totalPrincipal = totals.totalPrincipal
              /\ totals'.totalWeeklyInterest = totals.totalWeeklyInterest
         /\ \A i \in 1..Len(members) :
              handleWithdraw(members[i].id) =>
                /\ totals'.totalPrincipal = totals.totalPrincipal - members[i].amount
                /\ totals'.totalWeeklyInterest =
                     totals.totalWeeklyInterest - members[i].weeklyInterest
                /\ totals'.totalWithInterest =
                     totals.totalWithInterest
                       - computeProjectedTotal(members[i], currentWeek) ]_vars

\* After a week's advance one of two members left; the other one's sums remain.
C16_Witness ==
  /\ trip.stage = 1
  /\ Len(members) = 1
  /\ currentWeek > members[1].startWeek
  /\ totals.totalPrincipal = members[1].amount
  /\ totals.totalWithInterest = members[1].amount + 2 * members[1].weeklyInterest

(***************************************************************************)
(* C17: each advanceWeek raises every member's projected payout by that    *)
(* member's weeklyInterest and the total projected payout by the total     *)
(* weekly interest.                                                        *)
(***************************************************************************)
C17_AdvanceWeekAccruesOneWeek ==
  [][ advanceWeek =>
        /\ \A i \in 1..Len(members) :
             computeProjectedTotal(members[i], currentWeek') =
               computeProjectedTotal(members[i], currentWeek) + members[i].weeklyInterest
        /\ totals'.totalWithInterest =
             totals.totalWithInterest + totals.totalWeeklyInterest ]_vars

\* Two members of the first week, seen in the second.
C17_Witness ==
  /\ Len(members) = 2
  /\ members[1].startWeek = 1
  /\ members[2].startWeek = 1
  /\ currentWeek = 2
  /\ totals.totalWithInterest = totals.totalPrincipal + 2 * totals.totalWeeklyInterest

(***************************************************************************)
(* C18: from the initial form (tier1, amount 10000), as long as the amount *)
(* field is never typed into, the form's amount is the selected tier's     *)
(* amount, so a submit under a non-empty name fails, if it fails, with the *)
(* capacity message; a tier selection changes only the form's tier and     *)
(* amount; a successful submit clears the name and keeps the tier.         *)
(* (SpecNoEdit)                                                            *)
(***************************************************************************)
C18_UneditedAmountFollowsTier ==
  /\ formState.tierId = "tier1"
  /\ Number(formState.amount) = Finite(10000)
  /\ [](Number(formState.amount) = Finite(getTier(formState.tierId).amount))
  /\ [][ /\ (handleSubmit /\ NameGiven) => error' \in {NoError, ErrFull}
         /\ \A tierId \in TierId :
              handleTierChange(tierId) =>
                /\ formState'.tierId = tierId
                /\ formState'.name = formState.name
                /\ members' = members
                /\ currentWeek' = currentWeek
                /\ error' = error
         /\ (handleSubmit /\ AllRulesPass) =>
              /\ formState'.name = <<>>
              /\ formState'.tierId = formState.tierId ]_vars

\* A member was registered under a tier that was selected, and the form is
\* cleared for the next one of that tier.
C18_Witness ==
  /\ members # <<>>
  /\ LastMember.tierId = "tier3"
  /\ formState = [name |-> <<>>, tierId |-> "tier3", amount |-> ToStr(30000)]
  /\ error = NoError

====
